---- MODULE Spec2Model ----
(***************************************************************************)
(* A model of the wasm-core text engine: the piece table                   *)
(* (piece_table.rs), the undo/redo history (history.rs), the operation     *)
(* records (operations.rs) and the Document facade (lib.rs).               *)
(*                                                                         *)
(* Text is a sequence of bytes; offsets and lengths are usize values.      *)
(* Rust slices buffer[a..b] are SubSeq(buffer, a + 1, b).                  *)
(***************************************************************************)
EXTENDS Integers, Sequences, FiniteSets, TLC

(***************************************************************************)
(* Bounds of the model.                                                    *)
(***************************************************************************)
\* the add buffer may hold at most this many bytes (inserts beyond are not taken)
MaxAdd == 3
\* the number of calls made on one document
MaxCalls == 3

(***************************************************************************)
(* Program constants.                                                      *)
(***************************************************************************)
\* '\n' (0x0A), the only line break
NL == 10
\* history.rs: MAX_HISTORY_SIZE.  The source sets 1000; the model scales the
\* constant down so that eviction of the oldest record is reachable.
MAX_HISTORY_SIZE == 2
\* usize::MAX.  usize is target dependent (16, 32 or 64 bits); the model uses
\* the 16-bit width so that every sum stays inside TLC's integers.
USIZE_MAX == 65535
\* isize::MAX, the largest capacity a String may be given
ISIZE_MAX == USIZE_MAX \div 2

\* an ordinary byte ('a')
LetterA == 97
Char == {LetterA, NL}

\* wrapping usize arithmetic (release build: overflow-checks off)
WrapAdd(a, b) == (a + b) % (USIZE_MAX + 1)
WrapSub(a, b) == (a - b + USIZE_MAX + 1) % (USIZE_MAX + 1)
AddOverflows(a, b) == a + b > USIZE_MAX
SubOverflows(a, b) == b > a

\* usize::min
Min(a, b) == IF a <= b THEN a ELSE b

\* str::matches('\n').count()
RECURSIVE CountNL(_)
CountNL(text) ==
    IF text = <<>> THEN 0
    ELSE (IF Head(text) = NL THEN 1 ELSE 0) + CountNL(Tail(text))

\* &buffer[a..b]
Slice(buffer, a, b) == SubSeq(buffer, a + 1, b)

(***************************************************************************)
(* piece_table.rs: Piece                                                   *)
(***************************************************************************)
\* compute_line_starts with the scan started at the second byte
compute_line_starts_SkipsFirst(text) ==
    LET F[i \in 0..Len(text)] ==
            IF i <= 1 THEN <<>>
            ELSE IF text[i] = NL THEN Append(F[i - 1], i) ELSE F[i - 1]
    IN  F[Len(text)]

\* Piece::compute_line_starts: i + 1 for every byte index i holding '\n'
compute_line_starts(text) ==
    LET F[i \in 0..Len(text)] ==
            IF i = 0 THEN <<>>
            ELSE IF text[i] = NL THEN Append(F[i - 1], i) ELSE F[i - 1]
    IN  F[Len(text)]

Piece_new(buffer, start, length, text) ==
    [buffer |-> buffer, start |-> start, length |-> length,
     line_starts |-> compute_line_starts(text)]

Piece_line_count(piece) == Len(piece.line_starts)

(***************************************************************************)
(* piece_table.rs: PieceTable                                              *)
(***************************************************************************)
PieceTable_new(initial_content) ==
    LET length == Len(initial_content) IN
    [original     |-> initial_content,
     add_buffer   |-> <<>>,
     pieces       |-> IF length > 0
                      THEN <<Piece_new("Original", 0, length, initial_content)>>
                      ELSE <<>>,
     total_length |-> length,
     line_count   |-> CountNL(initial_content) + 1]

BufferOf(pt, piece) ==
    IF piece.buffer = "Original" THEN pt.original ELSE pt.add_buffer

get_text(pt) ==
    LET F[i \in 0..Len(pt.pieces)] ==
            IF i = 0 THEN <<>>
            ELSE LET piece == pt.pieces[i] IN
                 F[i - 1] \o Slice(BufferOf(pt, piece), piece.start,
                                   piece.start + piece.length)
    IN  F[Len(pt.pieces)]

get_length(pt) == pt.total_length

get_line_count(pt) == pt.line_count

\* get_text_range panics where String::with_capacity(length) exceeds isize::MAX
\* and, with overflow checks on, where offset + length overflows
get_text_range_panics(offset, length, checks) ==
    /\ length # 0
    /\ \/ length > ISIZE_MAX
       \/ checks /\ AddOverflows(offset, length)

\* the piece walk of get_text_range: st = [cur, res, done]
get_text_range(pt, offset, length) ==
    IF length = 0 THEN <<>>
    ELSE
    LET end_offset == WrapAdd(offset, length)
        F[i \in 0..Len(pt.pieces)] ==
            IF i = 0 THEN [cur |-> 0, res |-> <<>>, done |-> FALSE]
            ELSE
            LET st == F[i - 1]
                piece == pt.pieces[i]
                piece_end == st.cur + piece.length
            IN  IF st.done THEN st
                ELSE IF piece_end <= offset
                     THEN [st EXCEPT !.cur = piece_end]
                ELSE IF st.cur >= end_offset
                     THEN [st EXCEPT !.done = TRUE]
                ELSE
                LET start_in_piece == IF offset > st.cur
                                      THEN offset - st.cur ELSE 0
                    end_in_piece == IF end_offset < piece_end
                                    THEN end_offset - st.cur
                                    ELSE piece.length
                IN  [cur |-> piece_end,
                     res |-> st.res \o Slice(BufferOf(pt, piece),
                                             piece.start + start_in_piece,
                                             piece.start + end_in_piece),
                     done |-> FALSE]
    IN  F[Len(pt.pieces)].res

\* Option<T>: <<>> is None, <<x>> is Some(x)
None == <<>>
Some(x) == <<x>>

\* get_line_offset forgetting the offset of the piece the line starts in
get_line_offset_PieceRelative(pt, line) ==
    IF line = 0 THEN Some(0)
    ELSE IF line >= pt.line_count THEN None
    ELSE
    LET F[i \in 0..Len(pt.pieces)] ==
            IF i = 0 THEN [current_line |-> 0, current_offset |-> 0,
                           found |-> None]
            ELSE
            LET st == F[i - 1]
                piece == pt.pieces[i]
                k == line - st.current_line
            IN  IF st.found # None THEN st
                ELSE IF k >= 1 /\ k <= Len(piece.line_starts)
                THEN [st EXCEPT !.found = Some(piece.line_starts[k])]
                ELSE [current_line |-> st.current_line + Len(piece.line_starts),
                      current_offset |-> st.current_offset + piece.length,
                      found |-> None]
    IN  F[Len(pt.pieces)].found

\* PieceTable::get_line_offset: the walk counts the line starts of the pieces
\* and stops at the line-th one; st = [current_line, current_offset, found]
get_line_offset(pt, line) ==
    IF line = 0 THEN Some(0)
    ELSE IF line >= pt.line_count THEN None
    ELSE
    LET F[i \in 0..Len(pt.pieces)] ==
            IF i = 0 THEN [current_line |-> 0, current_offset |-> 0,
                           found |-> None]
            ELSE
            LET st == F[i - 1]
                piece == pt.pieces[i]
                k == line - st.current_line
            IN  IF st.found # None THEN st
                ELSE IF k >= 1 /\ k <= Len(piece.line_starts)
                THEN [st EXCEPT !.found =
                         Some(st.current_offset + piece.line_starts[k])]
                ELSE [current_line |-> st.current_line + Len(piece.line_starts),
                      current_offset |-> st.current_offset + piece.length,
                      found |-> None]
    IN  F[Len(pt.pieces)].found

\* the two offsets PieceTable::get_line reads its text between
get_line_bounds(pt, line) ==
    LET start == get_line_offset(pt, line)
        next == get_line_offset(pt, line + 1)
    IN  [start_offset |-> start[1],
         end_offset |-> IF line + 1 < pt.line_count
                        THEN (IF next # None THEN next[1] ELSE pt.total_length)
                        ELSE pt.total_length]

\* PieceTable::get_line panics where end_offset - start_offset underflows with
\* overflow checks on, and where get_text_range panics
get_line_panics(pt, line, checks) ==
    /\ line < pt.line_count
    /\ get_line_offset(pt, line) # None
    /\ LET b == get_line_bounds(pt, line) IN
       \/ checks /\ SubOverflows(b.end_offset, b.start_offset)
       \/ get_text_range_panics(b.start_offset,
                                WrapSub(b.end_offset, b.start_offset), checks)

\* get_line without the removal of the '\n' that ends the line
get_line_KeepsNewline(pt, line) ==
    IF line >= pt.line_count THEN None
    ELSE IF get_line_offset(pt, line) = None THEN None
    ELSE
    LET b == get_line_bounds(pt, line)
    IN  Some(get_text_range(pt, b.start_offset,
                            WrapSub(b.end_offset, b.start_offset)))

get_line(pt, line) ==
    IF line >= pt.line_count THEN None
    ELSE IF get_line_offset(pt, line) = None THEN None
    ELSE
    LET b == get_line_bounds(pt, line)
        line_text == get_text_range(pt, b.start_offset,
                                    WrapSub(b.end_offset, b.start_offset))
        n == Len(line_text)
    IN  Some(IF n > 0 /\ line_text[n] = NL THEN SubSeq(line_text, 1, n - 1)
             ELSE line_text)

\* position.rs: Position
Position_new(line, column) == [line |-> line, column |-> column]
Position_zero == [line |-> 0, column |-> 0]

\* offset_to_position counting a line start only when it lies before the offset
offset_to_position_StrictLess(pt, offset) ==
    IF offset = 0 THEN Position_zero
    ELSE
    LET clamped_offset == Min(offset, pt.total_length)
        F[i \in 0..Len(pt.pieces)] ==
            IF i = 0 THEN [line |-> 0, last_line_start |-> 0,
                           current_offset |-> 0, done |-> FALSE]
            ELSE
            LET st == F[i - 1]
                piece == pt.pieces[i]
                ls == piece.line_starts
                taken == CHOOSE k \in 0..Len(ls) :
                            /\ \A j \in 1..k :
                                  st.current_offset + ls[j] < clamped_offset
                            /\ k < Len(ls) =>
                                  ~(st.current_offset + ls[k + 1]
                                        < clamped_offset)
                current_offset == st.current_offset + piece.length
            IN  IF st.done THEN st
                ELSE [line |-> st.line + taken,
                      last_line_start |-> IF taken > 0
                                          THEN st.current_offset + ls[taken]
                                          ELSE st.last_line_start,
                      current_offset |-> current_offset,
                      done |-> current_offset >= clamped_offset]
        end == F[Len(pt.pieces)]
    IN  Position_new(end.line, clamped_offset - end.last_line_start)

\* offset_to_position without the clamp of the offset to total_length
offset_to_position_Unclamped(pt, offset) ==
    IF offset = 0 THEN Position_zero
    ELSE
    LET clamped_offset == offset
        F[i \in 0..Len(pt.pieces)] ==
            IF i = 0 THEN [line |-> 0, last_line_start |-> 0,
                           current_offset |-> 0, done |-> FALSE]
            ELSE
            LET st == F[i - 1]
                piece == pt.pieces[i]
                ls == piece.line_starts
                taken == CHOOSE k \in 0..Len(ls) :
                            /\ \A j \in 1..k :
                                  st.current_offset + ls[j] <= clamped_offset
                            /\ k < Len(ls) =>
                                  ~(st.current_offset + ls[k + 1]
                                        <= clamped_offset)
                current_offset == st.current_offset + piece.length
            IN  IF st.done THEN st
                ELSE [line |-> st.line + taken,
                      last_line_start |-> IF taken > 0
                                          THEN st.current_offset + ls[taken]
                                          ELSE st.last_line_start,
                      current_offset |-> current_offset,
                      done |-> current_offset >= clamped_offset]
        end == F[Len(pt.pieces)]
    IN  Position_new(end.line, clamped_offset - end.last_line_start)

\* PieceTable::offset_to_position: in each piece the inner loop takes the line
\* starts up to the first one past the offset; st = [line, last_line_start,
\* current_offset, done]
offset_to_position(pt, offset) ==
    IF offset = 0 THEN Position_zero
    ELSE
    LET clamped_offset == Min(offset, pt.total_length)
        F[i \in 0..Len(pt.pieces)] ==
            IF i = 0 THEN [line |-> 0, last_line_start |-> 0,
                           current_offset |-> 0, done |-> FALSE]
            ELSE
            LET st == F[i - 1]
                piece == pt.pieces[i]
                ls == piece.line_starts
                taken == CHOOSE k \in 0..Len(ls) :
                            /\ \A j \in 1..k :
                                  st.current_offset + ls[j] <= clamped_offset
                            /\ k < Len(ls) =>
                                  ~(st.current_offset + ls[k + 1]
                                        <= clamped_offset)
                current_offset == st.current_offset + piece.length
            IN  IF st.done THEN st
                ELSE [line |-> st.line + taken,
                      last_line_start |-> IF taken > 0
                                          THEN st.current_offset + ls[taken]
                                          ELSE st.last_line_start,
                      current_offset |-> current_offset,
                      done |-> current_offset >= clamped_offset]
        end == F[Len(pt.pieces)]
    IN  Position_new(end.line, clamped_offset - end.last_line_start)

\* position_to_offset without the clamp of the column to the line's length
position_to_offset_Unclamped(pt, line, column) ==
    LET line_offset == get_line_offset(pt, line)
        line_text == get_line(pt, line)
    IN  IF line_offset = None THEN None
        ELSE IF line_text = None THEN None
        ELSE Some(line_offset[1] + column)

position_to_offset(pt, line, column) ==
    LET line_offset == get_line_offset(pt, line)
        line_text == get_line(pt, line)
    IN  IF line_offset = None THEN None
        ELSE IF line_text = None THEN None
        ELSE LET max_column == Len(line_text[1])
                 clamped_column == Min(column, max_column)
             IN  Some(line_offset[1] + clamped_column)

\* split_piece handing on the line starts of the piece it splits, not rebuilt
split_piece_KeepsLineStarts(pt, piece, offset, length) ==
    [buffer |-> piece.buffer, start |-> piece.start + offset,
     length |-> length, line_starts |-> piece.line_starts]

\* split_piece with the new piece started where the split piece starts
split_piece_FromStart(pt, piece, offset, length) ==
    LET text == Slice(BufferOf(pt, piece), piece.start + offset,
                      piece.start + offset + length)
    IN  Piece_new(piece.buffer, piece.start, length, text)

split_piece(pt, piece, offset, length) ==
    LET text == Slice(BufferOf(pt, piece), piece.start + offset,
                      piece.start + offset + length)
    IN  Piece_new(piece.buffer, piece.start + offset, length, text)

\* Vec::insert(index, x), index 0-based
VecInsert(v, index, x) ==
    SubSeq(v, 1, index) \o <<x>> \o SubSeq(v, index + 1, Len(v))

\* insert_piece_at_offset splitting a piece also when the offset is its end
insert_piece_at_offset_SplitsAtEnd(pt, offset, new_piece) ==
    IF offset = 0 THEN VecInsert(pt.pieces, 0, new_piece)
    ELSE IF offset >= pt.total_length THEN Append(pt.pieces, new_piece)
    ELSE
    LET n == Len(pt.pieces)
        F[i \in 0..n] ==
            IF i = 0
            THEN [cur |-> 0, idx |-> n, out |-> <<>>, brk |-> FALSE, ret |-> FALSE]
            ELSE
            LET st == F[i - 1]
                piece == pt.pieces[i]
                piece_end == st.cur + piece.length
            IN  IF st.brk \/ st.ret THEN st
                ELSE IF offset = st.cur
                     THEN [st EXCEPT !.idx = i - 1, !.brk = TRUE]
                ELSE IF offset > st.cur /\ offset <= piece_end
                     THEN LET split_point == offset - st.cur
                              left == split_piece(pt, piece, 0, split_point)
                              right == split_piece(pt, piece, split_point,
                                                   piece.length - split_point)
                          IN  [st EXCEPT !.ret = TRUE,
                                         !.out = SubSeq(pt.pieces, 1, i - 1)
                                                 \o <<left, new_piece, right>>
                                                 \o SubSeq(pt.pieces, i + 1, n)]
                ELSE IF offset = piece_end
                     THEN [st EXCEPT !.idx = i, !.brk = TRUE]
                ELSE [st EXCEPT !.cur = piece_end]
        fin == F[n]
    IN  IF fin.ret THEN fin.out ELSE VecInsert(pt.pieces, fin.idx, new_piece)

\* the walk of insert_piece_at_offset: st = [cur, out, done]; out is the new
\* piece list once a branch has decided, idx the insert_index otherwise
insert_piece_at_offset(pt, offset, new_piece) ==
    IF offset = 0 THEN VecInsert(pt.pieces, 0, new_piece)
    ELSE IF offset >= pt.total_length THEN Append(pt.pieces, new_piece)
    ELSE
    LET n == Len(pt.pieces)
        F[i \in 0..n] ==
            IF i = 0
            THEN [cur |-> 0, idx |-> n, out |-> <<>>, brk |-> FALSE, ret |-> FALSE]
            ELSE
            LET st == F[i - 1]
                piece == pt.pieces[i]
                piece_end == st.cur + piece.length
            IN  IF st.brk \/ st.ret THEN st
                ELSE IF offset = st.cur
                     THEN [st EXCEPT !.idx = i - 1, !.brk = TRUE]
                ELSE IF offset > st.cur /\ offset < piece_end
                     THEN LET split_point == offset - st.cur
                              left == split_piece(pt, piece, 0, split_point)
                              right == split_piece(pt, piece, split_point,
                                                   piece.length - split_point)
                          IN  [st EXCEPT !.ret = TRUE,
                                         !.out = SubSeq(pt.pieces, 1, i - 1)
                                                 \o <<left, new_piece, right>>
                                                 \o SubSeq(pt.pieces, i + 1, n)]
                ELSE IF offset = piece_end
                     THEN [st EXCEPT !.idx = i, !.brk = TRUE]
                ELSE [st EXCEPT !.cur = piece_end]
        fin == F[n]
    IN  IF fin.ret THEN fin.out ELSE VecInsert(pt.pieces, fin.idx, new_piece)

\* PieceTable::insert without the early return on an empty text
PieceTable_insert_EmptyToo(pt, offset, text) ==
    LET add_start == Len(pt.add_buffer)
        grown == [pt EXCEPT !.add_buffer = pt.add_buffer \o text]
        new_piece == Piece_new("Add", add_start, Len(text), text)
        new_lines == Piece_line_count(new_piece)
    IN  [grown EXCEPT
            !.pieces = IF pt.pieces = <<>> THEN <<new_piece>>
                       ELSE insert_piece_at_offset(grown, offset, new_piece),
            !.total_length = WrapAdd(pt.total_length, Len(text)),
            !.line_count = WrapAdd(pt.line_count, new_lines)]

PieceTable_insert(pt, offset, text) ==
    IF text = <<>> THEN pt
    ELSE
    LET add_start == Len(pt.add_buffer)
        grown == [pt EXCEPT !.add_buffer = pt.add_buffer \o text]
        new_piece == Piece_new("Add", add_start, Len(text), text)
        new_lines == Piece_line_count(new_piece)
    IN  [grown EXCEPT
            !.pieces = IF pt.pieces = <<>> THEN <<new_piece>>
                       ELSE insert_piece_at_offset(grown, offset, new_piece),
            !.total_length = WrapAdd(pt.total_length, Len(text)),
            !.line_count = WrapAdd(pt.line_count, new_lines)]

\* delete_range keeping one byte too many of a piece the range starts in
delete_range_KeepsOneMore(pt, offset, length) ==
    LET end_offset == WrapAdd(offset, length)
        F[i \in 0..Len(pt.pieces)] ==
            IF i = 0 THEN [cur |-> 0, new_pieces |-> <<>>]
            ELSE
            LET st == F[i - 1]
                piece == pt.pieces[i]
                piece_start == st.cur
                piece_end == st.cur + piece.length
                kept ==
                    IF piece_end <= offset \/ piece_start >= end_offset
                    THEN <<piece>>
                    ELSE IF piece_start >= offset /\ piece_end <= end_offset
                    THEN <<>>
                    ELSE IF piece_start < offset /\ piece_end > end_offset
                    THEN <<split_piece(pt, piece, 0, offset - piece_start),
                           split_piece(pt, piece, end_offset - piece_start,
                                       piece_end - end_offset)>>
                    ELSE IF piece_start < offset
                    THEN <<split_piece(pt, piece, 0, offset - piece_start + 1)>>
                    ELSE <<split_piece(pt, piece, end_offset - piece_start,
                                       piece_end - end_offset)>>
            IN  [cur |-> piece_end, new_pieces |-> st.new_pieces \o kept]
    IN  F[Len(pt.pieces)].new_pieces

delete_range(pt, offset, length) ==
    LET end_offset == WrapAdd(offset, length)
        F[i \in 0..Len(pt.pieces)] ==
            IF i = 0 THEN [cur |-> 0, new_pieces |-> <<>>]
            ELSE
            LET st == F[i - 1]
                piece == pt.pieces[i]
                piece_start == st.cur
                piece_end == st.cur + piece.length
                kept ==
                    IF piece_end <= offset \/ piece_start >= end_offset
                    THEN <<piece>>
                    ELSE IF piece_start >= offset /\ piece_end <= end_offset
                    THEN <<>>
                    ELSE IF piece_start < offset /\ piece_end > end_offset
                    THEN LET left_len == offset - piece_start
                             right_start == end_offset - piece_start
                             right_len == piece_end - end_offset
                         IN  <<split_piece(pt, piece, 0, left_len),
                               split_piece(pt, piece, right_start, right_len)>>
                    ELSE IF piece_start < offset
                    THEN LET keep_len == offset - piece_start
                         IN  <<split_piece(pt, piece, 0, keep_len)>>
                    ELSE LET skip_len == end_offset - piece_start
                             keep_len == piece.length - skip_len
                         IN  <<split_piece(pt, piece, skip_len, keep_len)>>
            IN  [cur |-> piece_end, new_pieces |-> st.new_pieces \o kept]
    IN  F[Len(pt.pieces)].new_pieces

\* PieceTable::delete panics in get_text_range, or, with overflow checks on, in
\* delete_range's offset + length and in the two subtractions
PieceTable_delete_panics(pt, offset, length, checks) ==
    /\ ~(length = 0 \/ offset >= pt.total_length)
    /\ \/ get_text_range_panics(offset, length, checks)
       \/ checks /\ SubOverflows(pt.total_length, length)
       \/ checks /\ SubOverflows(pt.line_count,
                                 CountNL(get_text_range(pt, offset, length)))

\* PieceTable::delete without the update of total_length
PieceTable_delete_KeepsLength(pt, offset, length) ==
    IF length = 0 \/ offset >= pt.total_length THEN pt
    ELSE
    LET deleted_lines == CountNL(get_text_range(pt, offset, length))
    IN  [pt EXCEPT
            !.pieces = delete_range(pt, offset, length),
            !.line_count = WrapSub(pt.line_count, deleted_lines)]

\* PieceTable::delete emptying the add buffer once no piece is left
PieceTable_delete_ClearsAdd(pt, offset, length) ==
    IF length = 0 \/ offset >= pt.total_length THEN pt
    ELSE
    LET deleted_text == get_text_range(pt, offset, length)
        deleted_lines == CountNL(deleted_text)
        pieces == delete_range(pt, offset, length)
    IN  [pt EXCEPT
            !.pieces = pieces,
            !.add_buffer = IF pieces = <<>> THEN <<>> ELSE pt.add_buffer,
            !.total_length = WrapSub(pt.total_length, length),
            !.line_count = WrapSub(pt.line_count, deleted_lines)]

PieceTable_delete(pt, offset, length) ==
    IF length = 0 \/ offset >= pt.total_length THEN pt
    ELSE
    LET deleted_text == get_text_range(pt, offset, length)
        deleted_lines == CountNL(deleted_text)
    IN  [pt EXCEPT
            !.pieces = delete_range(pt, offset, length),
            !.total_length = WrapSub(pt.total_length, length),
            !.line_count = WrapSub(pt.line_count, deleted_lines)]

\* the table PieceTable::delete leaves behind when it panics: nothing is written
\* before get_text_range, self.pieces is written before the subtractions
PieceTable_delete_at_panic(pt, offset, length, checks) ==
    IF get_text_range_panics(offset, length, checks) THEN pt
    ELSE IF SubOverflows(pt.total_length, length)
    THEN [pt EXCEPT !.pieces = delete_range(pt, offset, length)]
    ELSE [pt EXCEPT !.pieces = delete_range(pt, offset, length),
                    !.total_length = pt.total_length - length]

(***************************************************************************)
(* operations.rs: Operation.  old_text is <<>> for None, <<t>> for Some(t) *)
(***************************************************************************)
Operation_new(op_type, offset, length, text) ==
    [op_type |-> op_type, offset |-> offset, length |-> length,
     text |-> text, old_text |-> <<>>]

Operation_new_replace(offset, delete_length, old_text, new_text) ==
    [op_type |-> "Replace", offset |-> offset, length |-> delete_length,
     text |-> new_text, old_text |-> <<old_text>>]

(***************************************************************************)
(* history.rs: History.  The top of a stack is the last element.           *)
(***************************************************************************)
History_new == [undo_stack |-> <<>>, redo_stack |-> <<>>]

\* History::push discarding the newest record, not the oldest, on overflow
History_push_DropsNewest(h, operation) ==
    LET pushed == Append(h.undo_stack, operation) IN
    [undo_stack |-> IF Len(pushed) > MAX_HISTORY_SIZE
                    THEN SubSeq(pushed, 1, Len(pushed) - 1)
                    ELSE pushed,
     redo_stack |-> <<>>]

\* History::push without the clearing of the redo stack
History_push_KeepsRedo(h, operation) ==
    LET pushed == Append(h.undo_stack, operation) IN
    [undo_stack |-> IF Len(pushed) > MAX_HISTORY_SIZE THEN Tail(pushed)
                    ELSE pushed,
     redo_stack |-> h.redo_stack]

History_push(h, operation) ==
    LET pushed == Append(h.undo_stack, operation) IN
    [undo_stack |-> IF Len(pushed) > MAX_HISTORY_SIZE THEN Tail(pushed)
                    ELSE pushed,
     redo_stack |-> <<>>]

\* History::undo clearing the redo stack as push does
History_undo_ClearsRedo(h) ==
    IF h.undo_stack # <<>>
    THEN LET n == Len(h.undo_stack)
             operation == h.undo_stack[n]
         IN  [history |-> [undo_stack |-> SubSeq(h.undo_stack, 1, n - 1),
                           redo_stack |-> <<operation>>],
              operation |-> <<operation>>]
    ELSE [history |-> h, operation |-> <<>>]

\* History::undo / History::redo: [history, operation]; operation is <<>> for None
History_undo(h) ==
    IF h.undo_stack # <<>>
    THEN LET n == Len(h.undo_stack)
             operation == h.undo_stack[n]
         IN  [history |-> [undo_stack |-> SubSeq(h.undo_stack, 1, n - 1),
                           redo_stack |-> Append(h.redo_stack, operation)],
              operation |-> <<operation>>]
    ELSE [history |-> h, operation |-> <<>>]

\* History::redo leaving the record it hands out on the redo stack
History_redo_KeepsRedo(h) ==
    IF h.redo_stack # <<>>
    THEN LET n == Len(h.redo_stack)
             operation == h.redo_stack[n]
         IN  [history |-> [undo_stack |-> Append(h.undo_stack, operation),
                           redo_stack |-> h.redo_stack],
              operation |-> <<operation>>]
    ELSE [history |-> h, operation |-> <<>>]

History_redo(h) ==
    IF h.redo_stack # <<>>
    THEN LET n == Len(h.redo_stack)
             operation == h.redo_stack[n]
         IN  [history |-> [undo_stack |-> Append(h.undo_stack, operation),
                           redo_stack |-> SubSeq(h.redo_stack, 1, n - 1)],
              operation |-> <<operation>>]
    ELSE [history |-> h, operation |-> <<>>]

History_can_undo(h) == h.undo_stack # <<>>

History_can_redo(h) == h.redo_stack # <<>>

History_undo_count(h) == Len(h.undo_stack)

History_redo_count(h) == Len(h.redo_stack)

History_clear(h) == [undo_stack |-> <<>>, redo_stack |-> <<>>]

(***************************************************************************)
(* lib.rs: Document.  Every operation yields the document it leaves and    *)
(* its result: "true", "false", or "panic" when the call never returns.    *)
(* checks is the build's overflow-checks setting (on in a debug build,     *)
(* off in a release build).                                                *)
(***************************************************************************)
Outcome(pt, h, ret) == [piece_table |-> pt, history |-> h, ret |-> ret]

Document_new(initial_content) ==
    [piece_table |-> PieceTable_new(initial_content), history |-> History_new]

Document_get_text(pt) == get_text(pt)

\* Document::get_text_range: [ret, text] with ret "some", "none" or "panic"
Document_get_text_range(pt, offset, length, checks) ==
    IF checks /\ AddOverflows(offset, length)
    THEN [ret |-> "panic", text |-> <<>>]
    ELSE IF WrapAdd(offset, length) > get_length(pt)
    THEN [ret |-> "none", text |-> <<>>]
    ELSE IF get_text_range_panics(offset, length, checks)
    THEN [ret |-> "panic", text |-> <<>>]
    ELSE [ret |-> "some", text |-> get_text_range(pt, offset, length)]

\* Document::get_line, get_line_offset, offset_to_position, position_to_offset
\* hand the call on to the piece table
Document_get_line(pt, line) == get_line(pt, line)

Document_get_line_offset(pt, line) == get_line_offset(pt, line)

Document_offset_to_position(pt, offset) == offset_to_position(pt, offset)

Document_position_to_offset(pt, line, column) ==
    position_to_offset(pt, line, column)

Document_insert(pt, h, offset, text, checks) ==
    IF offset > get_length(pt) THEN Outcome(pt, h, "false")
    ELSE
    LET operation == Operation_new("Insert", offset, Len(text), text)
    IN  Outcome(PieceTable_insert(pt, offset, text),
                History_push(h, operation), "true")

Document_delete(pt, h, offset, length, checks) ==
    IF checks /\ AddOverflows(offset, length) THEN Outcome(pt, h, "panic")
    ELSE IF WrapAdd(offset, length) > get_length(pt) THEN Outcome(pt, h, "false")
    ELSE IF get_text_range_panics(offset, length, checks)
    THEN Outcome(pt, h, "panic")
    ELSE
    LET deleted_text == get_text_range(pt, offset, length)
        operation == Operation_new("Delete", offset, length, deleted_text)
    IN  IF PieceTable_delete_panics(pt, offset, length, checks)
        THEN Outcome(PieceTable_delete_at_panic(pt, offset, length, checks),
                     h, "panic")
        ELSE Outcome(PieceTable_delete(pt, offset, length),
                     History_push(h, operation), "true")

Document_replace(pt, h, offset, length, text, checks) ==
    IF checks /\ AddOverflows(offset, length) THEN Outcome(pt, h, "panic")
    ELSE IF WrapAdd(offset, length) > get_length(pt) THEN Outcome(pt, h, "false")
    ELSE IF get_text_range_panics(offset, length, checks)
    THEN Outcome(pt, h, "panic")
    ELSE
    LET deleted_text == get_text_range(pt, offset, length)
        operation == Operation_new_replace(offset, length, deleted_text, text)
    IN  IF PieceTable_delete_panics(pt, offset, length, checks)
        THEN Outcome(PieceTable_delete_at_panic(pt, offset, length, checks),
                     h, "panic")
        ELSE Outcome(PieceTable_insert(PieceTable_delete(pt, offset, length),
                                       offset, text),
                     History_push(h, operation), "true")

\* the piece-table calls of apply_operation, as <<kind, offset, argument>> steps
apply_operation(operation) ==
    IF operation.op_type = "Insert"
    THEN << <<"insert", operation.offset, operation.text>> >>
    ELSE IF operation.op_type = "Delete"
    THEN << <<"delete", operation.offset, operation.length>> >>
    ELSE << <<"delete", operation.offset,
              IF operation.old_text = <<>> THEN 0
              ELSE Len(operation.old_text[1])>>,
            <<"insert", operation.offset, operation.text>> >>

\* apply_inverse_operation undoing a Replace by deleting the length of the old
\* text instead of the length of the new text
apply_inverse_operation_OldLength(operation) ==
    IF operation.op_type = "Insert"
    THEN << <<"delete", operation.offset, operation.length>> >>
    ELSE IF operation.op_type = "Delete"
    THEN << <<"insert", operation.offset, operation.text>> >>
    ELSE << <<"delete", operation.offset, operation.length>> >>
         \o (IF operation.old_text # <<>>
             THEN << <<"insert", operation.offset, operation.old_text[1]>> >>
             ELSE <<>>)

apply_inverse_operation(operation) ==
    IF operation.op_type = "Insert"
    THEN << <<"delete", operation.offset, operation.length>> >>
    ELSE IF operation.op_type = "Delete"
    THEN << <<"insert", operation.offset, operation.text>> >>
    ELSE << <<"delete", operation.offset, Len(operation.text)>> >>
         \o (IF operation.old_text # <<>>
             THEN << <<"insert", operation.offset, operation.old_text[1]>> >>
             ELSE <<>>)

\* runs the piece-table calls in order: [pt, panic]; a panic stops the run
RunSteps(pt, steps, checks) ==
    LET F[i \in 0..Len(steps)] ==
            IF i = 0 THEN [pt |-> pt, panic |-> FALSE]
            ELSE
            LET st == F[i - 1]
                step == steps[i]
            IN  IF st.panic THEN st
                ELSE IF step[1] = "insert"
                THEN [st EXCEPT !.pt = PieceTable_insert(st.pt, step[2], step[3])]
                ELSE IF PieceTable_delete_panics(st.pt, step[2], step[3], checks)
                THEN [pt |-> PieceTable_delete_at_panic(st.pt, step[2], step[3],
                                                        checks),
                      panic |-> TRUE]
                ELSE [st EXCEPT !.pt = PieceTable_delete(st.pt, step[2], step[3])]
    IN  F[Len(steps)]

\* Document::undo answering true whether or not the history had a record
Document_undo_AlwaysTrue(pt, h, checks) ==
    LET u == History_undo(h) IN
    IF u.operation # <<>>
    THEN LET r == RunSteps(pt, apply_inverse_operation(u.operation[1]), checks)
         IN  Outcome(r.pt, u.history, IF r.panic THEN "panic" ELSE "true")
    ELSE Outcome(pt, u.history, "true")

Document_undo(pt, h, checks) ==
    LET u == History_undo(h) IN
    IF u.operation # <<>>
    THEN LET r == RunSteps(pt, apply_inverse_operation(u.operation[1]), checks)
         IN  Outcome(r.pt, u.history, IF r.panic THEN "panic" ELSE "true")
    ELSE Outcome(pt, u.history, "false")

Document_redo(pt, h, checks) ==
    LET u == History_redo(h) IN
    IF u.operation # <<>>
    THEN LET r == RunSteps(pt, apply_operation(u.operation[1]), checks)
         IN  Outcome(r.pt, u.history, IF r.panic THEN "panic" ELSE "true")
    ELSE Outcome(pt, u.history, "false")

Document_can_undo(h) == History_can_undo(h)

Document_can_redo(h) == History_can_redo(h)

Document_clear_history(h) == History_clear(h)

(***************************************************************************)
(* The inputs the calls are made with.                                     *)
(***************************************************************************)
Texts == {<<>>, <<NL>>, <<LetterA, NL>>}
Offsets == {0, 1, 2, USIZE_MAX}
Lengths == {0, 1, 2, USIZE_MAX}
InitialContents == {<<>>, <<LetterA, NL, LetterA>>}

(***************************************************************************)
(* State: the Document's two fields, the build setting, and the name of    *)
(* the last call with its result.  before holds the sizes of the undo and  *)
(* the redo stack when the last call was made, undone records whether an   *)
(* undo has succeeded since the last push, calls counts the calls made,    *)
(* and rt follows a run of the shape edits, then undos, then redos.        *)
(***************************************************************************)
VARIABLES piece_table, history, overflow_checks, call, ret, before, undone,
          calls, rt

vars == <<piece_table, history, overflow_checks, call, ret, before, undone,
          calls, rt>>

RtOff == [phase |-> "off", edits |-> 0, undos |-> 0, redos |-> 0, final |-> <<>>]
RtStart == [phase |-> "edit", edits |-> 0, undos |-> 0, redos |-> 0, final |-> <<>>]
\* the longest edit sequence rt follows: one more than the history keeps
MaxS == MAX_HISTORY_SIZE + 1

InitDoc ==
    /\ \E initial_content \in InitialContents :
          LET d == Document_new(initial_content) IN
          /\ piece_table = d.piece_table
          /\ history = d.history
    /\ overflow_checks \in BOOLEAN
    /\ call = "new"
    /\ ret = "none"
    /\ before = <<0, 0>>
    /\ undone = FALSE
    /\ calls = 0

Init == InitDoc /\ rt = RtOff

InitRoundTrip == InitDoc /\ rt = RtStart

\* a panic ends the program; the add buffer is kept within MaxAdd
Alive == ret # "panic"
Fits(r) == Len(r.piece_table.add_buffer) <= MaxAdd

Took(r, name) ==
    /\ Alive
    /\ Fits(r)
    /\ piece_table' = r.piece_table
    /\ history' = r.history
    /\ ret' = r.ret
    /\ call' = name
    /\ before' = <<History_undo_count(history), History_redo_count(history)>>
    /\ UNCHANGED overflow_checks

DoInsert(offset, text) ==
    LET r == Document_insert(piece_table, history, offset, text, overflow_checks)
    IN  /\ Took(r, "insert")
        /\ undone' = IF r.ret = "true" THEN FALSE ELSE undone

DoDelete(offset, length) ==
    LET r == Document_delete(piece_table, history, offset, length, overflow_checks)
    IN  /\ Took(r, "delete")
        /\ undone' = IF r.ret = "true" THEN FALSE ELSE undone

DoReplace(offset, length, text) ==
    LET r == Document_replace(piece_table, history, offset, length, text,
                              overflow_checks)
    IN  /\ Took(r, "replace")
        /\ undone' = IF r.ret = "true" THEN FALSE ELSE undone

DoUndo ==
    LET r == Document_undo(piece_table, history, overflow_checks)
    IN  /\ Took(r, "undo")
        /\ undone' = IF r.ret = "true" THEN TRUE ELSE undone

DoRedo ==
    LET r == Document_redo(piece_table, history, overflow_checks)
    IN  /\ Took(r, "redo")
        /\ UNCHANGED undone

DoClearHistory ==
    /\ Alive
    /\ history' = Document_clear_history(history)
    /\ call' = "clearHistory"
    /\ ret' = "none"
    /\ before' = <<History_undo_count(history), History_redo_count(history)>>
    /\ undone' = FALSE
    /\ UNCHANGED <<piece_table, overflow_checks>>

(***************************************************************************)
(* Spec: any MaxCalls calls, in any order.                                 *)
(***************************************************************************)
Counted ==
    /\ calls < MaxCalls
    /\ calls' = calls + 1
    /\ UNCHANGED rt

Insert(offset, text) == Counted /\ DoInsert(offset, text)

Delete(offset, length) == Counted /\ DoDelete(offset, length)

Replace(offset, length, text) == Counted /\ DoReplace(offset, length, text)

Undo == Counted /\ DoUndo

Redo == Counted /\ DoRedo

ClearHistory == Counted /\ DoClearHistory

Next ==
    \/ \E offset \in Offsets, text \in Texts : Insert(offset, text)
    \/ \E offset \in Offsets, length \in Lengths : Delete(offset, length)
    \/ \E offset \in Offsets, length \in Lengths, text \in Texts :
          Replace(offset, length, text)
    \/ Undo
    \/ Redo
    \/ ClearHistory

Spec == Init /\ [][Next]_vars

(***************************************************************************)
(* SpecRoundTrip: a sequence S of at most MaxS edits that return true      *)
(* (a rejected edit changes nothing and is left out), then |S| undo calls,  *)
(* then |S| redo calls.  rt.final is the text at the end of S.             *)
(***************************************************************************)
RtEdited ==
    /\ rt.phase = "edit"
    /\ rt.edits < MaxS
    /\ ret' # "false"
    /\ rt' = IF ret' = "true" THEN [rt EXCEPT !.edits = rt.edits + 1] ELSE rt
    /\ UNCHANGED calls

RtInsert(offset, text) == DoInsert(offset, text) /\ RtEdited

RtDelete(offset, length) == DoDelete(offset, length) /\ RtEdited

RtReplace(offset, length, text) == DoReplace(offset, length, text) /\ RtEdited

RtUndo ==
    /\ \/ rt.phase = "edit" /\ rt.edits >= 1
       \/ rt.phase = "undo" /\ rt.undos < rt.edits
    /\ DoUndo
    /\ rt' = [rt EXCEPT !.phase = "undo", !.undos = rt.undos + 1,
                        !.final = IF rt.phase = "edit"
                                  THEN get_text(piece_table) ELSE rt.final]
    /\ UNCHANGED calls

RtRedo ==
    /\ \/ rt.phase = "undo" /\ rt.undos = rt.edits
       \/ rt.phase = "redo" /\ rt.redos < rt.edits
    /\ DoRedo
    /\ rt' = [rt EXCEPT !.phase = "redo", !.redos = rt.redos + 1]
    /\ UNCHANGED calls

RtTexts == {<<>>, <<NL>>}
RtOffsets == {0, 1, USIZE_MAX}
RtLengths == {0, 1}

NextRoundTrip ==
    \/ \E offset \in RtOffsets, text \in RtTexts : RtInsert(offset, text)
    \/ \E offset \in RtOffsets, length \in RtLengths : RtDelete(offset, length)
    \/ \E offset \in RtOffsets, length \in RtLengths, text \in RtTexts :
          RtReplace(offset, length, text)
    \/ RtUndo
    \/ RtRedo

SpecRoundTrip == InitRoundTrip /\ [][NextRoundTrip]_vars

(***************************************************************************)
(* What the claims speak of.                                               *)
(***************************************************************************)
Text == get_text(piece_table)

\* text with t put in at byte offset o / with the bytes [o, o + n) taken out
Splice(text, o, t) == SubSeq(text, 1, o) \o t \o SubSeq(text, o + 1, Len(text))
Remove(text, o, n) == SubSeq(text, 1, o) \o SubSeq(text, o + n + 1, Len(text))

RECURSIVE SumLengths(_)
SumLengths(pieces) ==
    IF pieces = <<>> THEN 0 ELSE Head(pieces).length + SumLengths(Tail(pieces))

Edits == {"insert", "delete", "replace"}

\* the piece list holds an Add piece standing between the two halves of a piece
\* that was split for it
SplitAround(pieces) ==
    \E i \in 2..(Len(pieces) - 1) :
        /\ pieces[i].buffer = "Add"
        /\ pieces[i - 1].buffer = pieces[i + 1].buffer
        /\ pieces[i - 1].start + pieces[i - 1].length = pieces[i + 1].start

\* two neighbouring pieces of one buffer with bytes missing between them
GapBetween(pieces) ==
    \E i \in 1..(Len(pieces) - 1) :
        /\ pieces[i].buffer = pieces[i + 1].buffer
        /\ pieces[i].start + pieces[i].length < pieces[i + 1].start

\* C2: in every reachable document the byte length of getText() equals
\* getLength(), and the cached total_length is the sum of the piece lengths.
C2_LengthIsTextLength ==
    /\ Len(Text) = get_length(piece_table)
    /\ piece_table.total_length = SumLengths(piece_table.pieces)

\* C2 witness: an undo has rewritten a document that holds several pieces
C2_Witness ==
    /\ call = "undo" /\ ret = "true"
    /\ Len(piece_table.pieces) >= 2
    /\ piece_table.total_length > 0

\* C3: in every reachable document getLineCount() is 1 plus the number of '\n'
\* bytes of getText(); it is at least 1, and 1 when the piece list is empty.
C3_LineCountIsNewlinesPlusOne ==
    /\ get_line_count(piece_table) = 1 + CountNL(Text)
    /\ get_line_count(piece_table) >= 1
    /\ piece_table.pieces = <<>> => get_line_count(piece_table) = 1

\* C3 witness: a delete took the last pieces of a document that had line breaks
C3_Witness ==
    /\ call = "delete" /\ ret = "true"
    /\ piece_table.pieces = <<>>
    /\ CountNL(piece_table.original) > 0

\* C4: from every reachable document, insert(o, t) with o <= total_length
\* returns true, leaves the prior text with t spliced in at o, raises the
\* length by len(t) and the line count by the number of '\n' in t.
C4_InsertSplices ==
    LET text == Text IN
    \A o \in Offsets, t \in Texts :
        (Alive /\ o <= piece_table.total_length) =>
            LET r == Document_insert(piece_table, history, o, t, overflow_checks)
            IN  /\ r.ret = "true"
                /\ get_text(r.piece_table) = Splice(text, o, t)
                /\ get_length(r.piece_table)
                       = get_length(piece_table) + Len(t)
                /\ get_line_count(r.piece_table)
                       = get_line_count(piece_table) + CountNL(t)

\* C4 witness: an insert of a text with a line break has split a piece
C4_Witness ==
    /\ call = "insert" /\ ret = "true"
    /\ SplitAround(piece_table.pieces)
    /\ piece_table.line_count > 1 + CountNL(piece_table.original)

\* C5: from every reachable document, delete(o, n) with o + n <= total_length
\* returns true, leaves the prior text without the bytes [o, o + n), lowers the
\* length by n and the line count by the number of '\n' bytes removed.
C5_DeleteRemoves ==
    LET text == Text IN
    \A o \in Offsets, n \in Lengths :
        (Alive /\ o + n <= piece_table.total_length) =>
            LET r == Document_delete(piece_table, history, o, n, overflow_checks)
            IN  /\ r.ret = "true"
                /\ get_text(r.piece_table) = Remove(text, o, n)
                /\ get_length(r.piece_table) = get_length(piece_table) - n
                /\ get_line_count(r.piece_table)
                       = get_line_count(piece_table)
                         - CountNL(SubSeq(text, o + 1, o + n))

\* C5 witness: a delete has cut bytes out between two pieces of one buffer
\* while other pieces stand in the list
C5_Witness ==
    /\ call = "delete" /\ ret = "true"
    /\ GapBetween(piece_table.pieces)
    /\ piece_table.line_count < 1 + CountNL(piece_table.original)
                                  + CountNL(piece_table.add_buffer)

\* the undo stack after one push of rec onto stack
Pushed(stack, rec) ==
    (IF Len(stack) >= MAX_HISTORY_SIZE THEN Tail(stack) ELSE stack) \o <<rec>>

\* C6: from every reachable document, replace(o, n, t) with o + n <= total_length
\* returns true and leaves the prior text with the bytes [o, o + n) replaced by
\* t; one record is pushed, holding the removed text and t; one undo then gives
\* back the text before the replace, and one redo after it the text after it.
C6_ReplaceAndItsRecord ==
    LET text == Text IN
    \A o \in Offsets, n \in Lengths :
        (Alive /\ o + n <= piece_table.total_length) =>
        \A t \in Texts :
            LET r == Document_replace(piece_table, history, o, n, t,
                                      overflow_checks)
                after == get_text(r.piece_table)
                removed == SubSeq(text, o + 1, o + n)
                rec == [op_type |-> "Replace", offset |-> o, length |-> n,
                        text |-> t, old_text |-> <<removed>>]
                u == Document_undo(r.piece_table, r.history, overflow_checks)
                v == Document_redo(u.piece_table, u.history, overflow_checks)
            IN  /\ r.ret = "true"
                /\ after = Splice(Remove(text, o, n), o, t)
                /\ r.history.undo_stack = Pushed(history.undo_stack, rec)
                /\ u.ret = "true"
                /\ get_text(u.piece_table) = text
                /\ v.ret = "true"
                /\ get_text(v.piece_table) = after

\* C6 witness: a replace has put a text in place of removed bytes, and its
\* record on top of the undo stack holds both
C6_Witness ==
    /\ call = "replace" /\ ret = "true"
    /\ history.undo_stack # <<>>
    /\ LET top == history.undo_stack[Len(history.undo_stack)] IN
       /\ top.op_type = "Replace"
       /\ top.text # <<>>
       /\ top.old_text # <<>> /\ top.old_text[1] # <<>>
       /\ top.old_text[1] # top.text
    /\ Len(piece_table.pieces) >= 2

\* C7 (as claimed): an out-of-range edit (insert with offset > total_length,
\* delete or replace with offset + length > total_length) returns false and
\* leaves the text, the length, the line count and both stacks as they were.
C7_OutOfRangeStep ==
    /\ \A o \in Offsets, t \in Texts :
          (DoInsert(o, t) /\ o > piece_table.total_length)
              => (ret' = "false" /\ UNCHANGED <<piece_table, history>>)
    /\ \A o \in Offsets, n \in Lengths :
          (DoDelete(o, n) /\ o + n > piece_table.total_length)
              => (ret' = "false" /\ UNCHANGED <<piece_table, history>>)
    /\ \A o \in Offsets, n \in Lengths, t \in Texts :
          (DoReplace(o, n, t) /\ o + n > piece_table.total_length)
              => (ret' = "false" /\ UNCHANGED <<piece_table, history>>)

C7_OutOfRangeRejected == [][C7_OutOfRangeStep]_vars

\* C8 (as claimed): an insert of the empty string and a delete of length 0, at
\* a valid offset, return true and push nothing: both stacks stay as they were.
C8_NoOpStep ==
    /\ \A o \in Offsets :
          (DoInsert(o, <<>>) /\ o <= piece_table.total_length)
              => (ret' = "true" /\ history' = history)
    /\ \A o \in Offsets :
          (DoDelete(o, 0) /\ o <= piece_table.total_length)
              => (ret' = "true" /\ history' = history)

C8_NoOpPushesNothing == [][C8_NoOpStep]_vars

\* C9: after every successful edit the redo stack is empty and canRedo is
\* false, from whatever document the edit is made; canRedo is true only if an
\* undo has succeeded since the most recent push.
C9_PushClearsRedo ==
    /\ (call \in Edits /\ ret = "true") =>
          (history.redo_stack = <<>> /\ ~Document_can_redo(history))
    /\ Document_can_redo(history) => undone
    /\ (Alive /\ Document_can_redo(history)) =>
          /\ \A o \in Offsets, t \in Texts :
                LET r == Document_insert(piece_table, history, o, t,
                                         overflow_checks)
                IN  r.ret = "true" => ~Document_can_redo(r.history)
          /\ \A o \in Offsets, n \in Lengths :
                LET r == Document_delete(piece_table, history, o, n,
                                         overflow_checks)
                IN  r.ret = "true" => ~Document_can_redo(r.history)
          /\ \A o \in Offsets, n \in Lengths, t \in Texts :
                LET r == Document_replace(piece_table, history, o, n, t,
                                          overflow_checks)
                IN  r.ret = "true" => ~Document_can_redo(r.history)

\* C9 witness: an edit was made while the redo stack held a record
C9_Witness ==
    /\ call \in Edits /\ ret = "true"
    /\ before[2] > 0
    /\ history.redo_stack = <<>>

\* C10: undo with an empty undo stack and redo with an empty redo stack (also
\* right after clearHistory) return false and change nothing; undo and redo
\* return true exactly when their stack was not empty.
C10_ExhaustedHistory ==
    /\ call = "undo" => (ret = "true" <=> before[1] > 0)
    /\ call = "redo" => (ret = "true" <=> before[2] > 0)
    /\ call = "clearHistory" => history = History_new
    /\ Alive =>
          LET u == Document_undo(piece_table, history, overflow_checks)
              v == Document_redo(piece_table, history, overflow_checks)
          IN  /\ u.ret = (IF history.undo_stack = <<>> THEN "false" ELSE "true")
              /\ v.ret = (IF history.redo_stack = <<>> THEN "false" ELSE "true")
              /\ history.undo_stack = <<>> =>
                    (u.piece_table = piece_table /\ u.history = history)
              /\ history.redo_stack = <<>> =>
                    (v.piece_table = piece_table /\ v.history = history)

\* C10 witness: undo was refused on an edited document whose history was empty
C10_Witness ==
    /\ call = "undo" /\ ret = "false"
    /\ before = <<0, 0>>
    /\ Text # piece_table.original

\* C1 (as claimed): after any sequence S of edits, |S| undo calls give back the
\* initial text, and |S| redo calls after them give back the final text.
C1_UndoRedoRoundTrip ==
    /\ (rt.phase = "undo" /\ rt.undos = rt.edits) => Text = piece_table.original
    /\ (rt.phase = "redo" /\ rt.redos = rt.edits) => Text = rt.final

\* the history after the records of ops are pushed in order
RECURSIVE PushAll(_, _)
PushAll(h, ops) ==
    IF ops = <<>> THEN h ELSE PushAll(History_push(h, Head(ops)), Tail(ops))

\* the last n elements of s
LastN(s, n) == IF Len(s) <= n THEN s ELSE SubSeq(s, Len(s) - n + 1, Len(s))

SampleRecords ==
    {Operation_new("Insert", 0, 0, <<>>), Operation_new("Delete", 1, 1, <<NL>>)}

\* runs of up to MAX_HISTORY_SIZE + 2 pushes
PushRuns == UNION {[1..n -> SampleRecords] : n \in 1..(MAX_HISTORY_SIZE + 2)}

\* C11: the undo stack never holds more than MAX_HISTORY_SIZE records; after a
\* run of pushes with no undo in between that overflows it, undo_count is
\* MAX_HISTORY_SIZE and the records kept are the MAX_HISTORY_SIZE most recently
\* pushed ones in push order.
C11_HistoryBound ==
    /\ History_undo_count(history) <= MAX_HISTORY_SIZE
    /\ (call \in Edits /\ ret = "true" /\ before[1] = MAX_HISTORY_SIZE)
          => History_undo_count(history) = MAX_HISTORY_SIZE
    /\ \A ops \in PushRuns :
          LET h == PushAll(history, ops)
              all == history.undo_stack \o ops
          IN  /\ h.undo_stack = LastN(all, MAX_HISTORY_SIZE)
              /\ Len(all) > MAX_HISTORY_SIZE
                    => History_undo_count(h) = MAX_HISTORY_SIZE

\* C11 witness: an edit pushed onto a full undo stack, and the oldest record
\* has gone
C11_Witness ==
    /\ call \in Edits /\ ret = "true"
    /\ before[1] = MAX_HISTORY_SIZE
    /\ History_undo_count(history) = MAX_HISTORY_SIZE
    /\ history.undo_stack[1] # history.undo_stack[2]

\* C12: History::undo moves the top record of the undo stack onto the redo
\* stack and leaves every other record of both stacks in place; History::redo
\* moves the top record of the redo stack back; an undo followed at once by a
\* redo restores both stacks.
C12_UndoRedoBypassPush ==
    LET u == History_undo(history)
        r == History_redo(history)
        nu == Len(history.undo_stack)
        nr == Len(history.redo_stack)
    IN  /\ nu > 0 =>
              /\ u.operation = <<history.undo_stack[nu]>>
              /\ u.history.undo_stack = SubSeq(history.undo_stack, 1, nu - 1)
              /\ u.history.redo_stack
                     = history.redo_stack \o <<history.undo_stack[nu]>>
              /\ History_redo(u.history).history = history
              /\ History_redo(u.history).operation = u.operation
        /\ nr > 0 =>
              /\ r.operation = <<history.redo_stack[nr]>>
              /\ r.history.redo_stack = SubSeq(history.redo_stack, 1, nr - 1)
              /\ r.history.undo_stack
                     = history.undo_stack \o <<history.redo_stack[nr]>>
        /\ (call = "undo" /\ ret = "true")
              => /\ History_undo_count(history) = before[1] - 1
                 /\ History_redo_count(history) = before[2] + 1
        /\ (call = "redo" /\ ret = "true")
              => /\ History_undo_count(history) = before[1] + 1
                 /\ History_redo_count(history) = before[2] - 1

\* C12 witness: an undo was made while the redo stack already held a record
C12_Witness ==
    /\ call = "undo" /\ ret = "true"
    /\ before[2] >= 1
    /\ History_redo_count(history) = before[2] + 1

\* the offset of the first byte of line l of text: 0, or just after the l-th '\n'
LineStartRef(text, l) ==
    IF l = 0 THEN 0
    ELSE CHOOSE o \in 1..Len(text) :
            text[o] = NL /\ CountNL(SubSeq(text, 1, o)) = l

\* the offset at which line l of text ends: that of its '\n', or the end
LineEndRef(text, l) ==
    IF l < CountNL(text) THEN LineStartRef(text, l + 1) - 1 ELSE Len(text)

\* line l of text, without the '\n' that ends it
LineRef(text, l) ==
    SubSeq(text, LineStartRef(text, l) + 1, LineEndRef(text, l))

\* the lines, columns and offsets the queries are asked about
QueryLines == 0..(piece_table.line_count + 1) \cup {USIZE_MAX}
QueryColumns == 0..(piece_table.total_length + 1) \cup {USIZE_MAX}
QueryOffsets == 0..(piece_table.total_length + 1) \cup {USIZE_MAX}

\* a document of several pieces whose last line starts after the first piece
SeveralPiecesAndLines ==
    /\ Alive
    /\ Len(piece_table.pieces) >= 3
    /\ piece_table.line_count >= 3
    /\ piece_table.pieces[1].line_starts = <<>>

\* C13: in every reachable document, for every offset o in [0, total_length],
\* positionToOffset of the (line, column) that offsetToPosition(o) returns is o.
C13_OffsetPositionRoundTrip ==
    Alive =>
    \A o \in 0..piece_table.total_length :
        LET p == Document_offset_to_position(piece_table, o)
        IN  Document_position_to_offset(piece_table, p.line, p.column) = Some(o)

\* C13 witness: a document of several pieces and lines, edited and undone, in
\* which an offset on a later line is carried there and back
C13_Witness ==
    /\ SeveralPiecesAndLines
    /\ call = "undo" /\ ret = "true"
    /\ \E o \in 1..piece_table.total_length :
          offset_to_position(piece_table, o).line >= 2

\* C14: in every reachable document, getLineOffset(l) for l < line_count is the
\* offset in getText() of the first byte of line l (0 for l = 0), and is absent
\* for every l >= line_count.
C14_LineOffset ==
    Alive =>
    LET text == Text IN
    \A l \in QueryLines :
        /\ l < piece_table.line_count =>
              Document_get_line_offset(piece_table, l)
                  = Some(LineStartRef(text, l))
        /\ l >= piece_table.line_count =>
              Document_get_line_offset(piece_table, l) = None
        /\ l = 0 => Document_get_line_offset(piece_table, l) = Some(0)

\* C14 witness: a line starts in a piece that is not the first
C14_Witness ==
    /\ SeveralPiecesAndLines
    /\ call = "insert" /\ ret = "true"
    /\ get_line_offset(piece_table, 1) # None
    /\ get_line_offset(piece_table, 1)[1] > piece_table.pieces[1].length

\* C15: in every reachable document, getLine(l) for l < line_count is the l-th
\* segment of getText() split at '\n', without the '\n' that ends it, and is
\* absent for every l >= line_count.
C15_Line ==
    Alive =>
    LET text == Text IN
    \A l \in QueryLines :
        /\ l < piece_table.line_count =>
              /\ ~get_line_panics(piece_table, l, overflow_checks)
              /\ Document_get_line(piece_table, l) = Some(LineRef(text, l))
              /\ CountNL(Document_get_line(piece_table, l)[1]) = 0
        /\ l >= piece_table.line_count =>
              Document_get_line(piece_table, l) = None

\* C15 witness: a line that ends with '\n' is read from several pieces
C15_Witness ==
    /\ Alive
    /\ call = "replace" /\ ret = "true"
    /\ piece_table.line_count >= 2
    /\ Len(piece_table.pieces) >= 2
    /\ Len(get_line(piece_table, 0)[1]) > piece_table.pieces[1].length

\* C16: in every reachable document, offsetToPosition(o) clamps o to
\* o' = min(o, total_length) and returns the number of '\n' bytes before o' as
\* line and o' minus the offset of the first byte of that line as column;
\* offsets above total_length give the result of total_length, and 0 gives (0, 0).
C16_OffsetToPosition ==
    Alive =>
    LET text == Text IN
    \A o \in QueryOffsets :
        LET clamped == Min(o, piece_table.total_length)
            line == CountNL(SubSeq(text, 1, clamped))
            p == Document_offset_to_position(piece_table, o)
        IN  /\ p = Position_new(line, clamped - LineStartRef(text, line))
            /\ o > piece_table.total_length =>
                  p = Document_offset_to_position(piece_table,
                                                  piece_table.total_length)
            /\ o = 0 => p = Position_new(0, 0)

\* C16 witness: the end of a document of several pieces lies on a later line,
\* at a column that is not 0
C16_Witness ==
    /\ SeveralPiecesAndLines
    /\ call = "delete" /\ ret = "true"
    /\ offset_to_position(piece_table, USIZE_MAX).line >= 2
    /\ offset_to_position(piece_table, USIZE_MAX).column >= 1

\* C17: in every reachable document, positionToOffset(line, column) is absent
\* when line >= line_count and otherwise getLineOffset(line) + min(column, byte
\* length of getLine(line)); it never exceeds total_length and never passes the
\* '\n' that ends the line.
C17_PositionToOffset ==
    Alive =>
    LET text == Text IN
    \A l \in QueryLines :
        IF l >= piece_table.line_count
        THEN \A c \in QueryColumns :
                Document_position_to_offset(piece_table, l, c) = None
        ELSE LET line_offset == Document_get_line_offset(piece_table, l)[1]
                 line_length == Len(Document_get_line(piece_table, l)[1])
                 first == LineStartRef(text, l)
                 last == LineEndRef(text, l)
             IN  \A c \in QueryColumns :
                    LET r == Document_position_to_offset(piece_table, l, c)
                    IN  /\ r = Some(line_offset + Min(c, line_length))
                        /\ r = Some(first + Min(c, last - first))
                        /\ r[1] <= piece_table.total_length
                        /\ r[1] <= last

\* C17 witness: a redo has left a document of several pieces with a line that
\* is not the last and is shorter than the columns asked for
C17_Witness ==
    /\ Alive
    /\ call = "redo" /\ ret = "true"
    /\ Len(piece_table.pieces) >= 2
    /\ piece_table.line_count >= 2
    /\ get_line(piece_table, 1) # None
    /\ position_to_offset(piece_table, 1, USIZE_MAX)
           # Some(piece_table.total_length)

\* C18 (as claimed): Document.getTextRange(o, n) returns the bytes [o, o + n) of
\* getText() when o + n <= total_length, and absent when o + n > total_length.
C18_TextRange ==
    Alive =>
    LET text == Text IN
    \A o \in Offsets, n \in Lengths :
        LET r == Document_get_text_range(piece_table, o, n, overflow_checks)
        IN  IF o + n <= piece_table.total_length
            THEN r.ret = "some" /\ r.text = SubSeq(text, o + 1, o + n)
            ELSE r.ret = "none"

\* the PieceTable::delete calls that running steps executes, each with the table
\* it is executed on: a sequence of [pt, offset, length]
DeletesOf(pt, steps, checks) ==
    LET F[i \in 0..Len(steps)] ==
            IF i = 0 THEN [pt |-> pt, panic |-> FALSE, deletes |-> <<>>]
            ELSE
            LET st == F[i - 1]
                step == steps[i]
                d == [pt |-> st.pt, offset |-> step[2], length |-> step[3]]
            IN  IF st.panic THEN st
                ELSE IF step[1] = "insert"
                THEN [st EXCEPT !.pt = PieceTable_insert(st.pt, step[2], step[3])]
                ELSE IF PieceTable_delete_panics(st.pt, step[2], step[3], checks)
                THEN [st EXCEPT !.panic = TRUE,
                                !.deletes = Append(st.deletes, d)]
                ELSE [st EXCEPT
                         !.pt = PieceTable_delete(st.pt, step[2], step[3]),
                         !.deletes = Append(st.deletes, d)]
    IN  F[Len(steps)].deletes

\* the piece-table calls Document::delete / Document::replace get to make
EditSteps(pt, offset, length, text, checks) ==
    IF \/ checks /\ AddOverflows(offset, length)
       \/ WrapAdd(offset, length) > get_length(pt)
       \/ get_text_range_panics(offset, length, checks)
    THEN <<>>
    ELSE << <<"delete", offset, length>>, <<"insert", offset, text>> >>

\* the PieceTable::delete calls that any one Document call makes from this state
DeletesOfAnyCall ==
    LET u == History_undo(history)
        r == History_redo(history)
        of(steps) == DeletesOf(piece_table, steps, overflow_checks)
        range(ds) == {ds[i] : i \in 1..Len(ds)}
    IN  UNION {range(of(EditSteps(piece_table, o, n, <<>>, overflow_checks)))
                  : o \in Offsets, n \in Lengths}
        \cup (IF u.operation # None
              THEN range(of(apply_inverse_operation(u.operation[1]))) ELSE {})
        \cup (IF r.operation # None
              THEN range(of(apply_operation(r.operation[1]))) ELSE {})

\* the range of the call extends past the end of the document
PastEnd(d) == d.offset + d.length > d.pt.total_length

\* one of the two subtractions of PieceTable::delete underflows
Underflows(d) ==
    /\ ~(d.length = 0 \/ d.offset >= d.pt.total_length)
    /\ \/ SubOverflows(d.pt.total_length, d.length)
       \/ SubOverflows(d.pt.line_count,
                       CountNL(get_text_range(d.pt, d.offset, d.length)))

\* C19 (as claimed): whatever the offset and length arguments, wrapping sums
\* included, PieceTable::delete is never executed with a range that extends
\* past the end of the document, and its two subtractions never underflow.
C19_DeleteNeverPastEnd ==
    Alive => \A d \in DeletesOfAnyCall : ~PastEnd(d) /\ ~Underflows(d)

\* C20: in every reachable piece table no piece has length 0 and every piece
\* lies within the buffer it refers to: start + length <= length of the buffer.
C20_PiecesWellFormed ==
    \A i \in 1..Len(piece_table.pieces) :
        LET piece == piece_table.pieces[i] IN
        /\ piece.length > 0
        /\ piece.start + piece.length <= Len(BufferOf(piece_table, piece))

\* C20 witness: a delete has left two parts of the original buffer, one that
\* starts after its first byte and one that ends before its last, beside a
\* piece of the add buffer
C20_Witness ==
    /\ call = "delete" /\ ret = "true"
    /\ \E i, j, k \in 1..Len(piece_table.pieces) :
          /\ piece_table.pieces[i].buffer = "Original"
          /\ piece_table.pieces[i].start > 0
          /\ piece_table.pieces[j].buffer = "Original"
          /\ piece_table.pieces[j].start + piece_table.pieces[j].length
                 < Len(piece_table.original)
          /\ piece_table.pieces[k].buffer = "Add"

\* the bytes of its buffer that a piece stands for
SliceOf(pt, piece) ==
    Slice(BufferOf(pt, piece), piece.start, piece.start + piece.length)

\* C21: in every reachable piece table, each piece's line_starts lists the
\* offsets, relative to the piece's first byte, just after each '\n' of the
\* piece's buffer slice: strictly increasing, every value in (0, length], one
\* entry per '\n'.
C21_LineStartsOfPieces ==
    \A i \in 1..Len(piece_table.pieces) :
        LET piece == piece_table.pieces[i]
            ls == piece.line_starts
            slice == SliceOf(piece_table, piece)
        IN  /\ Len(ls) = CountNL(slice)
            /\ \A k \in 1..Len(ls) :
                  /\ ls[k] > 0 /\ ls[k] <= piece.length
                  /\ slice[ls[k]] = NL
                  /\ k > 1 => ls[k - 1] < ls[k]

\* C21 witness: an insert has split a piece of the original buffer, and a half
\* that holds a '\n' carries a line start of its own
C21_Witness ==
    /\ call = "insert" /\ ret = "true"
    /\ SplitAround(piece_table.pieces)
    /\ \E i \in 1..Len(piece_table.pieces) :
          /\ piece_table.pieces[i].buffer = "Original"
          /\ piece_table.pieces[i].length < Len(piece_table.original)
          /\ piece_table.pieces[i].line_starts # <<>>

\* s is a prefix of t
IsPrefix(s, t) == Len(s) <= Len(t) /\ SubSeq(t, 1, Len(s)) = s

\* the texts that the insert steps among steps hand to PieceTable::insert
RECURSIVE InsertedBy(_)
InsertedBy(steps) ==
    IF steps = <<>> THEN <<>>
    ELSE (IF Head(steps)[1] = "insert" THEN Head(steps)[3] ELSE <<>>)
         \o InsertedBy(Tail(steps))

\* C22: across every step the Original buffer is unchanged and the Add buffer
\* before the step is a prefix of the Add buffer after it; the Add buffer grows
\* by exactly the text of each piece-table insert, those of undo and redo
\* included, and not at all on a delete.
C22_Step ==
    LET add == piece_table.add_buffer
        pushed == history'.undo_stack[Len(history'.undo_stack)]
        undone_op == history'.redo_stack[Len(history'.redo_stack)]
    IN  /\ piece_table'.original = piece_table.original
        /\ IsPrefix(add, piece_table'.add_buffer)
        /\ \A o \in Offsets, t \in Texts :
              LET r == PieceTable_insert(piece_table, o, t)
              IN  r.add_buffer = add \o t /\ r.original = piece_table.original
        /\ \A o \in Offsets, n \in Lengths :
              LET r == PieceTable_delete(piece_table, o, n)
              IN  r.add_buffer = add /\ r.original = piece_table.original
        /\ (call' \in {"insert", "replace"} /\ ret' = "true")
              => piece_table'.add_buffer = add \o pushed.text
        /\ call' \in {"delete", "clearHistory"}
              => piece_table'.add_buffer = add
        /\ ret' = "false" => piece_table'.add_buffer = add
        /\ (call' = "undo" /\ ret' = "true")
              => piece_table'.add_buffer
                     = add \o InsertedBy(apply_inverse_operation(undone_op))
        /\ (call' = "redo" /\ ret' = "true")
              => piece_table'.add_buffer
                     = add \o InsertedBy(apply_operation(pushed))

C22_BuffersAppendOnly == [][C22_Step]_vars

\* C22 witness: an undo has put deleted bytes back by appending them to the Add
\* buffer, which now holds more bytes than the pieces point at
C22_Witness ==
    /\ call = "undo" /\ ret = "true"
    /\ history.redo_stack # <<>>
    /\ history.redo_stack[Len(history.redo_stack)].op_type = "Delete"
    /\ history.redo_stack[Len(history.redo_stack)].text # <<>>
    /\ Len(piece_table.add_buffer) >= 2

\* the document offset at which the k-th piece ends (0 for k = 0)
EndOfPiece(pieces, k) == SumLengths(SubSeq(pieces, 1, k))

\* p is the piece PieceTable::insert makes for text on top of the add buffer
IsNewPiece(p, pt, text) ==
    p.buffer = "Add" /\ p.start = Len(pt.add_buffer) /\ p.length = Len(text)

\* C23: a non-empty insert at a piece boundary (offset 0, offset total_length,
\* the start or end of a piece) keeps every piece as it is and adds one piece; a
\* non-empty insert strictly inside a piece puts [left, new, right] in its
\* place, left and right together as long as the piece, and adds two pieces.
C23_BoundaryInsertKeepsPieces ==
    LET old == piece_table.pieces
        m == Len(old)
    IN  \A o \in 0..piece_table.total_length, t \in Texts \ {<<>>} :
            LET new == PieceTable_insert(piece_table, o, t).pieces
            IN  IF \E k \in 0..m : EndOfPiece(old, k) = o
                THEN /\ Len(new) = m + 1
                     /\ \E k \in 0..m :
                           /\ EndOfPiece(old, k) = o
                           /\ SubSeq(new, 1, k) = SubSeq(old, 1, k)
                           /\ IsNewPiece(new[k + 1], piece_table, t)
                           /\ SubSeq(new, k + 2, m + 1) = SubSeq(old, k + 1, m)
                ELSE /\ Len(new) = m + 2
                     /\ \E i \in 1..m :
                           LET at == o - EndOfPiece(old, i - 1)
                               left == new[i]
                               right == new[i + 2]
                           IN  /\ at > 0 /\ at < old[i].length
                               /\ SubSeq(new, 1, i - 1) = SubSeq(old, 1, i - 1)
                               /\ SubSeq(new, i + 3, m + 2)
                                      = SubSeq(old, i + 1, m)
                               /\ IsNewPiece(new[i + 1], piece_table, t)
                               /\ left.buffer = old[i].buffer
                               /\ right.buffer = old[i].buffer
                               /\ left.start = old[i].start
                               /\ left.length = at
                               /\ right.start = old[i].start + at
                               /\ left.length + right.length = old[i].length

\* C23 witness: an insert was made where the piece of an earlier insert ends and
\* the whole original piece starts, and both are as they were
C23_Witness ==
    /\ call = "insert" /\ ret = "true"
    /\ Len(piece_table.pieces) = 3
    /\ LET p == piece_table.pieces IN
       /\ p[1].buffer = "Add" /\ p[1].start = 0
       /\ p[2].buffer = "Add" /\ p[2].start = p[1].length
       /\ p[3].buffer = "Original" /\ p[3].start = 0
       /\ p[3].length = Len(piece_table.original)

\* the number of records a history holds on its two stacks
StackSum(h) == History_undo_count(h) + History_redo_count(h)

\* C24: in every reachable history undo_count + redo_count <= MAX_HISTORY_SIZE:
\* undo and redo keep the sum of the two stack sizes, push empties the redo
\* stack and caps the undo stack, so redo never grows the undo stack past the
\* bound.
C24_StacksWithinBound ==
    /\ StackSum(history) <= MAX_HISTORY_SIZE
    /\ StackSum(History_undo(history).history) = StackSum(history)
    /\ StackSum(History_redo(history).history) = StackSum(history)
    /\ History_undo_count(History_redo(history).history) <= MAX_HISTORY_SIZE
    /\ \A operation \in SampleRecords :
          LET p == History_push(history, operation)
          IN  /\ History_redo_count(p) = 0
              /\ History_undo_count(p)
                     = Min(History_undo_count(history) + 1, MAX_HISTORY_SIZE)

\* C24 witness: after more edits than the history keeps, and the undos that
\* follow, a redo has filled the undo stack up to the bound again
C24_Witness ==
    /\ call = "redo" /\ ret = "true"
    /\ rt.phase = "redo" /\ rt.edits > MAX_HISTORY_SIZE
    /\ History_undo_count(history) = MAX_HISTORY_SIZE
    /\ before = <<MAX_HISTORY_SIZE - 1, 1>>

\* the edit requests of SpecRoundTrip, as <<name, arguments...>>
RtRequests ==
    {<<"insert", o, t>> : o \in RtOffsets, t \in RtTexts}
    \cup {<<"delete", o, n>> : o \in RtOffsets, n \in RtLengths}
    \cup {<<"replace", o, n, t>> : o \in RtOffsets, n \in RtLengths, t \in RtTexts}

\* the Document call that a request stands for
ApplyRequest(pt, h, e, checks) ==
    IF e[1] = "insert" THEN Document_insert(pt, h, e[2], e[3], checks)
    ELSE IF e[1] = "delete" THEN Document_delete(pt, h, e[2], e[3], checks)
    ELSE Document_replace(pt, h, e[2], e[3], e[4], checks)

\* the document after the requests es, made in order from (pt, h); ret is
\* "true" if every one of them returned true
RunRequests(pt, h, es, checks) ==
    LET F[i \in 0..Len(es)] ==
            IF i = 0 THEN Outcome(pt, h, "true")
            ELSE LET d == F[i - 1] IN
                 IF d.ret # "true" THEN d
                 ELSE ApplyRequest(d.piece_table, d.history, es[i], checks)
    IN  F[Len(es)]

\* the document after k undo calls from (pt, h); ret is "true" if every one of
\* them returned true
UndoTimes(pt, h, k, checks) ==
    LET F[i \in 0..k] ==
            IF i = 0 THEN Outcome(pt, h, "true")
            ELSE LET d == F[i - 1] IN
                 IF d.ret # "true" THEN d
                 ELSE Document_undo(d.piece_table, d.history, checks)
    IN  F[k]

\* C25 (as claimed): when n > MAX_HISTORY_SIZE edits have been pushed with no
\* undo in between, exactly MAX_HISTORY_SIZE undo calls return true, the next
\* returns false, and the text is then the text the document had after the
\* first n - MAX_HISTORY_SIZE edits.  The state is a document after its first
\* rt.edits >= 1 edits; es are the MAX_HISTORY_SIZE edits that follow.
C25_UndoAfterEviction ==
    (Alive /\ rt.phase = "edit" /\ rt.edits >= 1) =>
    \A es \in [1..MAX_HISTORY_SIZE -> RtRequests] :
        LET d == RunRequests(piece_table, history, es, overflow_checks)
            u == UndoTimes(d.piece_table, d.history, MAX_HISTORY_SIZE,
                           overflow_checks)
        IN  d.ret = "true" =>
                /\ u.ret = "true"
                /\ Document_undo(u.piece_table, u.history, overflow_checks).ret
                       = "false"
                /\ get_text(u.piece_table) = Text
====
